---- MODULE Spec2Model ----
(***************************************************************************)
(* SCF-cycle inspection of pymatgen (pymatgen/io/abinitio/abiinspect.py)   *)
(* and the monotonic predicate of pymatgen/util/num_utils.py.              *)
(*                                                                         *)
(* A text stream is a sequence of lines.  A line is the record             *)
(*   [lead |-> number of leading blanks,                                   *)
(*    toks |-> its whitespace-separated tokens,                            *)
(*    gaps |-> the number of blanks between consecutive tokens]            *)
(* so that str.strip, str.split and str.startswith are computed, not       *)
(* assumed.  Numbers are held in hundredths (float("-8.86") is -886).      *)
(* None is the empty sequence and a present value x is <<x>>.              *)
(***************************************************************************)
EXTENDS Integers, Sequences, FiniteSets, TLC

VARIABLES
    stream,      \* the lines of the open stream
    pos,         \* number of lines the stream iterator has handed out
    start,       \* pos when the running GroundStateScfCycle.from_stream began
    pc,          \* "scan" | "parsed" | "ret" | "done" | "error" | "mono"
    in_doc,      \* _magic_parser local
    fields,      \* _magic_parser local: None or <<OrderedDict>>
    keys,        \* _magic_parser local
    scf_cycle,   \* Relaxation.from_stream local: what from_stream returned
    cycles,      \* Relaxation.from_stream local, then Relaxation.cycles
    result,      \* what Relaxation.from_stream returned: None or <<cycles>>
    err,         \* the exception that ended Relaxation.from_stream
    _history,    \* Relaxation._history: None while the attribute is unset
    histRet,     \* what the last access of Relaxation.history returned
    histExc,     \* the exception the last access of Relaxation.history raised
    nAccess,     \* number of accesses of Relaxation.history so far
    values,      \* monotonic argument
    mode,        \* monotonic argument
    atol,        \* monotonic argument
    monoRet      \* what monotonic returned: "pending", "True", "False", "ValueError"

vars == <<stream, pos, start, pc, in_doc, fields, keys, scf_cycle, cycles,
          result, err, _history, histRet, histExc, nAccess,
          values, mode, atol, monoRet>>

scanVars == <<stream, pos, start, pc, in_doc, fields, keys, scf_cycle, cycles,
              result, err, _history, histRet, histExc, nAccess>>

monoVars == <<values, mode, atol, monoRet>>

\* ---------------------------------------------------------------- bounds
\* Longest stream, in lines.
MaxLines == 4
\* Accesses of Relaxation.history that are followed.
MaxAccess == 2
\* Longest stream under FairSpec, in lines.
MaxFairLines == 3
\* Longest argument of monotonic.
MaxVals == 3

\* ------------------------------------------------------------ python values
None == <<>>

Some(x) == <<x>>

\* ------------------------------------------------------------------- lines
Line(lead, toks, gaps) == [lead |-> lead, toks |-> toks, gaps |-> gaps]

\* GroundStateScfCycle.MAGIC = "iter   Etot(hartree)"
MAGIC == Line(0, <<"iter", "Etot(hartree)">>, <<3>>)

BlankLine == Line(2, <<>>, <<>>)

\* "iter   Etot(hartree)   deltaE(h)"
HeaderLine == Line(0, <<"iter", "Etot(hartree)", "deltaE(h)">>, <<3, 3>>)

\* "  iter   Etot(hartree)": indented, one data column
IndentedHeaderLine == Line(2, <<"iter", "Etot(hartree)">>, <<3>>)

\* "SCF iter   Etot(hartree)   deltaE(h)": the marker, not at the line's start
MidMarkerLine == Line(0, <<"SCF", "iter", "Etot(hartree)", "deltaE(h)">>, <<1, 3, 3>>)

\* "1  -8.86  -0.10" and "2  -8.90  -0.04"
BareRow1 == Line(0, <<"1", "-8.86", "-0.10">>, <<2, 2>>)

BareRow2 == Line(0, <<"2", "-8.90", "-0.04">>, <<2, 2>>)

\* "ETOT  1  -8.86  -0.10" and "ETOT  2  -8.90  -0.04": rows with a leading label
EtotRow1 == Line(0, <<"ETOT", "1", "-8.86", "-0.10">>, <<2, 2, 2>>)

EtotRow2 == Line(0, <<"ETOT", "2", "-8.90", "-0.04">>, <<2, 2, 2>>)

Lines == {BlankLine, HeaderLine, IndentedHeaderLine, MidMarkerLine,
          BareRow1, BareRow2, EtotRow1, EtotRow2}

RECURSIVE SeqsUpTo(_, _)
SeqsUpTo(S, n) ==
    IF n = 0 THEN {<<>>}
    ELSE LET shorter == SeqsUpTo(S, n - 1)
         IN shorter \cup {Append(s, x) : s \in {t \in shorter : Len(t) = n - 1}, x \in S}

\* a parser that forgets to strip the line
strip_nothing(line) == line

\* str.strip()
strip(line) == [line EXCEPT !.lead = 0]

\* str.split()
split(line) == line.toks

\* bool(line) of a stripped line: the empty string is false
nonempty(line) == line.lead > 0 \/ Len(line.toks) > 0

\* the text of m occurs in line with m's first token at token off+1
OccursAt(line, m, off) ==
    /\ Len(line.toks) >= off + Len(m.toks)
    /\ \A i \in 1..Len(m.toks) : line.toks[off + i] = m.toks[i]
    /\ \A i \in 1..Len(m.gaps) : line.gaps[off + i] = m.gaps[i]

\* a parser that looks for the marker anywhere in the line
startswith_anywhere(line, m) ==
    line.lead = m.lead /\ \E off \in 0..Len(line.toks) : OccursAt(line, m, off)

\* str.startswith(magic)
startswith(line, m) == line.lead = m.lead /\ OccursAt(line, m, 0)

\* float(): the texts that parse, and their values in hundredths
FloatText == {"1", "2", "-8.86", "-8.90", "-0.10", "-0.04"}

float(t) ==
    CASE t = "1" -> 100
      [] t = "2" -> 200
      [] t = "-8.86" -> -886
      [] t = "-8.90" -> -890
      [] t = "-0.10" -> -10
      [] t = "-0.04" -> -4

\* a parser that keeps the row label: line.split()
RowTokens_keep_label(line) == split(line)

\* line.split()[1:]
RowTokens(line) == IF split(line) = <<>> THEN <<>> ELSE Tail(split(line))

\* ------------------------------------------------------------ OrderedDict
\* An OrderedDict is the sequence of its items [k, v] in insertion order.
RECURSIVE OrderedDictFromKeys(_)
OrderedDictFromKeys(ks) ==
    IF ks = <<>> THEN <<>>
    ELSE LET n == Len(ks)
             d == OrderedDictFromKeys(SubSeq(ks, 1, n - 1))
         IN IF \E i \in 1..Len(d) : d[i].k = ks[n] THEN d
            ELSE Append(d, [k |-> ks[n], v |-> <<>>])

DictKeys(d) == [i \in 1..Len(d) |-> d[i].k]

DictGet(d, key) == d[CHOOSE i \in 1..Len(d) : d[i].k = key].v

\* a from_stream that leaves the "iter" column in the record
DictPop_nothing(d, key) == d

\* fields.pop("iter")
DictPop(d, key) == SelectSeq(d, LAMBDA e : e.k # key)

\* for l, v in zip(fields.values(), tokens): l.append(v)
AppendRow(d, tokens) ==
    [i \in 1..Len(d) |->
        IF i <= Len(tokens) THEN [d[i] EXCEPT !.v = Append(@, float(tokens[i]))]
        ELSE d[i]]

\* a parser with no check of the row's length (zip truncates silently)
RowCheck_no_assert(tokens, ks) ==
    IF \E i \in 1..Len(tokens) : tokens[i] \notin FloatText THEN "ValueError"
    ELSE "ok"

\* tokens = map(float, line.split()[1:]); assert len(tokens) == len(keys)
RowCheck(tokens, ks) ==
    IF \E i \in 1..Len(tokens) : tokens[i] \notin FloatText THEN "ValueError"
    ELSE IF Len(tokens) # Len(ks) THEN "AssertionError"
    ELSE "ok"

\* a parser that also skips the line after the header
SkipLine_after_header(n) == n <= 2

\* if in_doc == 1: continue
SkipLine(n) == n = 1

\* ----------------------------------------------------------------- Init
NoMono == /\ values = <<>>
          /\ mode = ">"
          /\ atol = 0
          /\ monoRet = "pending"

\* The state when Relaxation.from_stream is called on an open stream of at
\* most n lines.
ScanInit(n) ==
    /\ stream \in SeqsUpTo(Lines, n)
    /\ pos = 0
    /\ start = 0
    /\ pc = "scan"
    /\ in_doc = 0
    /\ fields = None
    /\ keys = <<>>
    /\ scf_cycle = None
    /\ cycles = <<>>
    /\ result = None
    /\ err = "none"
    /\ _history = None
    /\ histRet = None
    /\ histExc = "none"
    /\ nAccess = 0
    /\ NoMono

Init == ScanInit(MaxLines)

\* --------------------------------------------------------- _magic_parser
\* One iteration of "for line in stream" in _magic_parser.
_magic_parser ==
    /\ pc = "scan"
    /\ pos < Len(stream)
    /\ pos' = pos + 1
    /\ LET line == strip(stream[pos + 1])
           hit == startswith(line, MAGIC)
           keys1 == IF hit THEN split(line) ELSE keys
           fields1 == IF hit THEN Some(OrderedDictFromKeys(keys1)) ELSE fields
           tokens == RowTokens(line)
       IN /\ keys' = keys1
          /\ IF fields1 = None
             THEN /\ fields' = fields1
                  /\ UNCHANGED <<in_doc, pc, err>>
             ELSE /\ in_doc' = in_doc + 1
                  /\ IF SkipLine(in_doc + 1)
                     THEN /\ fields' = fields1
                          /\ UNCHANGED <<pc, err>>
                     ELSE IF ~nonempty(line)
                     THEN /\ fields' = fields1
                          /\ pc' = "parsed"
                          /\ UNCHANGED err
                     ELSE IF RowCheck(tokens, keys1) # "ok"
                     THEN /\ fields' = fields1
                          /\ pc' = "error"
                          /\ err' = RowCheck(tokens, keys1)
                     ELSE /\ fields' = Some(AppendRow(fields1[1], tokens))
                          /\ UNCHANGED <<pc, err>>
    /\ UNCHANGED <<stream, start, scf_cycle, cycles, result,
                   _history, histRet, histExc, nAccess>>
    /\ UNCHANGED monoVars

\* ------------------------------------------------------------ ScfCycle
\* all_lens = [len(lst) for lst in self.values()]
all_lens(d) == [i \in 1..Len(d) |-> Len(d[i].v)]

\* ScfCycle.__init__, where its assert holds
ScfCycle(d) == [fields |-> d, num_iterations |-> all_lens(d)[1]]

\* assert all(n == self.num_iterations for n in all_lens)
ColumnsAgree(d) == \A i \in 1..Len(d) : all_lens(d)[i] = all_lens(d)[1]

\* a from_stream that wraps an empty table when no section was found
FromStreamFields_never_none(f) ==
    IF f # None /\ f[1] # <<>> THEN Some(DictPop(f[1], "iter"))
    ELSE Some(<<[k |-> "Etot(hartree)", v |-> <<>>]>>)

\* "if fields: fields.pop("iter")" of ScfCycle.from_stream: the table the
\* record is built from, None when from_stream returns None
FromStreamFields(f) ==
    IF f # None /\ f[1] # <<>> THEN Some(DictPop(f[1], "iter")) ELSE None

\* ScfCycle.__getitem__
getitem(cycle, key) == DictGet(cycle.fields, key)

\* v[-1] raises IndexError on an empty list
LastIterationRaises(cycle) ==
    \E i \in 1..Len(cycle.fields) : cycle.fields[i].v = <<>>

\* ScfCycle.last_iteration, where it does not raise
last_iteration(cycle) ==
    [k \in {cycle.fields[i].k : i \in 1..Len(cycle.fields)} |->
        LET v == DictGet(cycle.fields, k) IN v[Len(v)]]

\* GroundStateScfCycle.last_etotal, where it does not raise
last_etotal(cycle) ==
    LET v == getitem(cycle, "Etot(hartree)") IN v[Len(v)]

\* The for loop of _magic_parser has ended (break, or the stream is exhausted):
\* _magic_parser returns fields and ScfCycle.from_stream returns.
from_stream ==
    /\ \/ pc = "parsed"
       \/ pc = "scan" /\ pos = Len(stream)
    /\ IF FromStreamFields(fields) # None
       THEN LET d == FromStreamFields(fields)[1]
            IN IF ~ColumnsAgree(d)
               THEN /\ pc' = "error"
                    /\ err' = "AssertionError"
                    /\ UNCHANGED scf_cycle
               ELSE /\ pc' = "ret"
                    /\ scf_cycle' = Some(ScfCycle(d))
                    /\ UNCHANGED err
       ELSE /\ pc' = "ret"
            /\ scf_cycle' = None
            /\ UNCHANGED err
    /\ UNCHANGED <<stream, pos, start, in_doc, fields, keys, cycles, result,
                   _history, histRet, histExc, nAccess>>
    /\ UNCHANGED monoVars

\* ---------------------------------------------------------- Relaxation
\* a from_stream that returns the Relaxation even when it is empty
RelaxationResult_always(cs) == Some(cs)

\* return cls(cycles) if cycles else None
RelaxationResult(cs) == IF cs # <<>> THEN Some(cs) ELSE None

\* The body of "while True" in Relaxation.from_stream after from_stream has
\* returned; when the loop breaks, the return statement.
Relaxation_from_stream ==
    /\ pc = "ret"
    /\ IF scf_cycle = None
       THEN /\ pc' = "done"
            /\ result' = RelaxationResult(cycles)
            /\ UNCHANGED <<cycles, start, in_doc, fields, keys, scf_cycle>>
       ELSE /\ cycles' = Append(cycles, scf_cycle[1])
            /\ pc' = "scan"
            /\ start' = pos
            /\ in_doc' = 0
            /\ fields' = None
            /\ keys' = <<>>
            /\ scf_cycle' = None
            /\ UNCHANGED result
    /\ UNCHANGED <<stream, pos, err, _history, histRet, histExc, nAccess>>
    /\ UNCHANGED monoVars

\* history[k].append(v) for k, v in d.items(), history a defaultdict(list)
Extend(h, d) ==
    [k \in DOMAIN h \cup DOMAIN d |->
        IF k \in DOMAIN d
        THEN Append(IF k \in DOMAIN h THEN h[k] ELSE <<>>, d[k])
        ELSE h[k]]

\* The loop "for cycle in self" of Relaxation.history, from the mapping h on
RECURSIVE FillHistory(_, _)
FillHistory(h, cs) ==
    IF cs = <<>> THEN [h |-> h, exc |-> "none"]
    ELSE IF LastIterationRaises(Head(cs)) THEN [h |-> h, exc |-> "IndexError"]
    ELSE FillHistory(Extend(h, last_iteration(Head(cs))), Tail(cs))

\* One access of the property Relaxation.history.
history ==
    /\ pc = "done"
    /\ result # None
    /\ nAccess < MaxAccess
    /\ nAccess' = nAccess + 1
    /\ IF _history # None
       THEN /\ histRet' = _history
            /\ histExc' = "none"
            /\ UNCHANGED _history
       ELSE LET filled == FillHistory(<<>>, result[1])
            IN /\ _history' = Some(filled.h)
               /\ histExc' = filled.exc
               /\ histRet' = IF filled.exc = "none" THEN Some(filled.h) ELSE None
    /\ UNCHANGED <<stream, pos, start, pc, in_doc, fields, keys, scf_cycle,
                   cycles, result, err>>
    /\ UNCHANGED monoVars

\* -------------------------------------------------------------- monotonic
\* Values of monotonic are held in units of 1e-8, the default atol.
DefaultAtol == 1

\* values = [1.2, 1.3, 1.4] of the doctest
DocValues == <<120000000, 130000000, 140000000>>

MonoValues == {0, 1, 2, 3} \cup {DocValues[i] : i \in 1..Len(DocValues)}

MonoModes == {">", "<", "="}

abs(x) == IF x < 0 THEN -x ELSE x

\* a monotonic that takes a difference of exactly atol as a difference
monotonic_open_tolerance(vs, m, tol) ==
    IF Len(vs) = 1 THEN "True"
    ELSE IF m = ">"
    THEN IF \E i \in 1..(Len(vs) - 1) :
                abs(vs[i + 1] - vs[i]) >= tol /\ vs[i + 1] <= vs[i]
         THEN "False" ELSE "True"
    ELSE IF m = "<"
    THEN IF \E i \in 1..(Len(vs) - 1) :
                abs(vs[i + 1] - vs[i]) >= tol /\ vs[i + 1] >= vs[i]
         THEN "False" ELSE "True"
    ELSE "ValueError"

\* monotonic(values, mode, atol): "True", "False", or "ValueError" when it raises
monotonic(vs, m, tol) ==
    IF Len(vs) = 1 THEN "True"
    ELSE IF m = ">"
    THEN IF \E i \in 1..(Len(vs) - 1) :
                abs(vs[i + 1] - vs[i]) > tol /\ vs[i + 1] <= vs[i]
         THEN "False" ELSE "True"
    ELSE IF m = "<"
    THEN IF \E i \in 1..(Len(vs) - 1) :
                abs(vs[i + 1] - vs[i]) > tol /\ vs[i + 1] >= vs[i]
         THEN "False" ELSE "True"
    ELSE "ValueError"

InitMono ==
    /\ values \in SeqsUpTo(MonoValues, MaxVals)
    /\ mode \in MonoModes
    /\ atol \in {0, DefaultAtol}
    /\ monoRet = "pending"
    /\ stream = <<>>
    /\ pos = 0
    /\ start = 0
    /\ pc = "mono"
    /\ in_doc = 0
    /\ fields = None
    /\ keys = <<>>
    /\ scf_cycle = None
    /\ cycles = <<>>
    /\ result = None
    /\ err = "none"
    /\ _history = None
    /\ histRet = None
    /\ histExc = "none"
    /\ nAccess = 0

\* The call monotonic(values, mode, atol).
call_monotonic ==
    /\ pc = "mono"
    /\ monoRet = "pending"
    /\ monoRet' = monotonic(values, mode, atol)
    /\ UNCHANGED <<values, mode, atol>>
    /\ UNCHANGED scanVars

NextMono == call_monotonic

SpecMono == InitMono /\ [][NextMono]_vars

Next ==
    \/ _magic_parser
    \/ from_stream
    \/ Relaxation_from_stream
    \/ history

Spec == Init /\ [][Next]_vars
\* Relaxation.from_stream is sequential code that runs to completion.
FairInit == ScanInit(MaxFairLines)

FairSpec == FairInit /\ [][Next]_vars /\ WF_vars(Next)

\* ======================================================================
\* What the stream holds, read off the lines themselves.
\* ======================================================================
\* the line, blanks at its ends aside, begins "iter   Etot(hartree)"
MarkerAtStart(l) ==
    /\ Len(l.toks) >= 2
    /\ l.toks[1] = "iter"
    /\ l.gaps[1] = 3
    /\ l.toks[2] = "Etot(hartree)"

\* the line holds "iter   Etot(hartree)" somewhere
MarkerInside(l) ==
    \E i \in 1..(Len(l.toks) - 1) :
        l.toks[i] = "iter" /\ l.gaps[i] = 3 /\ l.toks[i + 1] = "Etot(hartree)"

Min(S) == CHOOSE x \in S : \A y \in S : x <= y

\* the first header line after line p, 0 when there is none
FirstHeaderAfter(p) ==
    LET hs == {i \in (p + 1)..Len(stream) : MarkerAtStart(stream[i])}
    IN IF hs = {} THEN 0 ELSE Min(hs)

\* the line that ends the section of header h: its blank line, or one past the end
BodyEnd(h) ==
    Min({j \in (h + 1)..Len(stream) : stream[j].toks = <<>>} \cup {Len(stream) + 1})

\* the data lines of the section of header h
NumRows(h) == BodyEnd(h) - h - 1

\* the headers of the sections met when reading on from line p
RECURSIVE SectionsAfter(_)
SectionsAfter(p) ==
    LET h == FirstHeaderAfter(p)
    IN IF h = 0 THEN <<>> ELSE <<h>> \o SectionsAfter(BodyEnd(h))

\* the record of the section of header h: one column per header token but
\* "iter"; column c holds token c+1 of every data line
SectionRecord(h) ==
    LET cols == SelectSeq([c \in 1..Len(stream[h].toks) |-> c],
                          LAMBDA c : stream[h].toks[c] # "iter")
    IN [fields |-> [j \in 1..Len(cols) |->
                      [k |-> stream[h].toks[cols[j]],
                       v |-> [r \in 1..NumRows(h) |->
                                float(stream[h + r].toks[cols[j] + 1])]]],
        num_iterations |-> NumRows(h)]

\* the first GroundStateScfCycle.from_stream on the stream has returned
FirstReturn == pc = "ret" /\ cycles = <<>>

\* ======================================================================
\* C1
\* ======================================================================
C1Stream == <<HeaderLine, BareRow1, BareRow2, BlankLine>>

C1LabelledStream == <<HeaderLine, EtotRow1, EtotRow2, BlankLine>>

\* the record C1 describes
C1Record(c) ==
    /\ c.num_iterations = 2
    /\ getitem(c, "Etot(hartree)") = <<-886, -890>>
    /\ last_iteration(c) = ("Etot(hartree)" :> -890 @@ "deltaE(h)" :> -4)
    /\ last_etotal(c) = -890
    /\ \A i \in 1..Len(c.fields) : c.fields[i].k # "iter"

\* C1 as stated: on the header "iter   Etot(hartree)   deltaE(h)", the rows
\* "1  -8.86  -0.10" and "2  -8.90  -0.04" and a blank line, from_stream raises
\* nothing and returns the record with num_iterations 2, Etot(hartree)
\* [-8.86, -8.90], last_iteration {Etot(hartree): -8.90, deltaE(h): -0.04},
\* last_etotal -8.90 and no "iter" column.
C1Original ==
    stream = C1Stream =>
        /\ err = "none"
        /\ FirstReturn => scf_cycle # None /\ C1Record(scf_cycle[1])

\* C1 amended: that record is returned when each row carries a label before
\* its iteration index ("ETOT  1  -8.86  -0.10", "ETOT  2  -8.90  -0.04"); on
\* the rows as C1 gives them the first row has two numbers for three header
\* columns, and from_stream raises AssertionError there and returns nothing.
C1Amended ==
    /\ stream = C1LabelledStream =>
          /\ err = "none"
          /\ FirstReturn => scf_cycle # None /\ C1Record(scf_cycle[1])
    /\ stream = C1Stream =>
          /\ pc \in {"scan", "error"}
          /\ pos >= 2 => pc = "error" /\ err = "AssertionError" /\ pos = 2
          /\ scf_cycle = None /\ cycles = <<>> /\ result = None

C1Witness ==
    /\ stream = C1LabelledStream
    /\ FirstReturn
    /\ scf_cycle # None
    /\ scf_cycle[1].num_iterations = 2

\* ======================================================================
\* C2
\* ======================================================================
\* C2: when Relaxation.from_stream returns, the stream holding N sections, it
\* returns None if N = 0 and otherwise the Relaxation whose cycles are the
\* records of those N sections in stream order; never an empty Relaxation.
C2Sections ==
    pc = "done" =>
        LET hs == SectionsAfter(0)
        IN /\ result # Some(<<>>)
           /\ hs = <<>> => result = None
           /\ hs # <<>> =>
                 /\ result # None
                 /\ Len(result[1]) = Len(hs)
                 /\ \A i \in 1..Len(hs) : result[1][i] = SectionRecord(hs[i])

C2Witness ==
    /\ pc = "done"
    /\ result # None
    /\ Len(result[1]) = 2
    /\ result[1][1].num_iterations >= 1

\* ======================================================================
\* C3
\* ======================================================================
\* the cycles whose last_iteration has the quantity k
CyclesWith(k) ==
    SelectSeq(cycles, LAMBDA c : \E i \in 1..Len(c.fields) :
                                     c.fields[i].k = k /\ c.fields[i].v # <<>>)

\* the quantity names of the cycles' last iterations
LastIterationNames ==
    {k \in {"iter", "Etot(hartree)", "deltaE(h)"} : CyclesWith(k) # <<>>}

\* C3 as stated: every mapping an access of history returns, the first access
\* or a later one, maps every quantity name k of some cycle's last_iteration
\* to the values last_iteration[k] of the cycles that have k, in cycle order,
\* so that history["Etot(hartree)"] has one entry per cycle.
C3History ==
    (pc = "done" /\ nAccess >= 1 /\ histRet # None) =>
        /\ DOMAIN histRet[1] = LastIterationNames
        /\ \A k \in LastIterationNames :
              histRet[1][k] = [i \in 1..Len(CyclesWith(k)) |->
                                 LET v == getitem(CyclesWith(k)[i], k) IN v[Len(v)]]
        /\ "Etot(hartree)" \in DOMAIN histRet[1]
        /\ Len(histRet[1]["Etot(hartree)"]) = Len(cycles)

\* ======================================================================
\* C4
\* ======================================================================
\* C4: a scan that starts where no later line has the marker raises nothing,
\* returns None, and returns only with every line of the stream consumed.
C4NoMarker ==
    FirstHeaderAfter(start) = 0 =>
        /\ pc # "error"
        /\ pc = "scan" => fields = None
        /\ pc = "ret" => scf_cycle = None /\ pos = Len(stream)

C4Witness ==
    /\ FirstHeaderAfter(0) = 0
    /\ Len(stream) >= 2
    /\ pc = "ret"
    /\ scf_cycle = None
    /\ pos = Len(stream)

\* ======================================================================
\* C5
\* ======================================================================
\* the scanner is in the body of a section and the next line is a data line
\* whose tokens, the first dropped, are not as many as the header's columns
MismatchedRowNext ==
    /\ pc = "scan"
    /\ fields # None
    /\ pos < Len(stream)
    /\ stream[pos + 1].toks # <<>>
    /\ Len(stream[pos + 1].toks) - 1 # Len(keys)

\* C5: reading such a line ends the scan with an error; no record is returned
\* for the section and none is added to the cycles.
C5Mismatch ==
    [][MismatchedRowNext =>
          /\ pc' = "error"
          /\ err' \in {"AssertionError", "ValueError"}
          /\ scf_cycle' = None
          /\ cycles' = cycles
          /\ result' = None]_vars

C5Witness ==
    /\ pc = "error"
    /\ err = "AssertionError"
    /\ fields # None
    /\ Len(fields[1][1].v) = 1
    /\ Len(stream[pos].toks) - 1 # Len(keys)

\* ======================================================================
\* C6
\* ======================================================================
\* C6: a record from_stream returns has every column of length
\* num_iterations, the number of data lines between the header and the blank
\* line or the end of the stream; its keys are the header's tokens but "iter",
\* in header order.
C6Columns ==
    (pc = "ret" /\ scf_cycle # None) =>
        LET c == scf_cycle[1]
            h == FirstHeaderAfter(start)
        IN /\ \A i \in 1..Len(c.fields) : Len(c.fields[i].v) = c.num_iterations
           /\ c.num_iterations = NumRows(h)
           /\ DictKeys(c.fields) = SelectSeq(stream[h].toks, LAMBDA t : t # "iter")

C6Witness ==
    /\ pc = "ret"
    /\ scf_cycle # None
    /\ scf_cycle[1].num_iterations = 2
    /\ Len(scf_cycle[1].fields) = 2

\* ======================================================================
\* C7
\* ======================================================================
\* C7: in a record from_stream returns, row r is the r-th line after the
\* header line, for every line up to the section's end: the line after the
\* header is the first row and no body line is dropped.
C7NextLineIsFirstRow ==
    (pc = "ret" /\ scf_cycle # None) =>
        LET c == scf_cycle[1]
            h == FirstHeaderAfter(start)
        IN /\ c.num_iterations = NumRows(h)
           /\ \A r \in 1..NumRows(h) : \A j \in 1..Len(c.fields) :
                 /\ r <= Len(c.fields[j].v)
                 /\ c.fields[j].v[r] = float(stream[h + r].toks[j + 2])

C7Witness ==
    /\ pc = "ret"
    /\ scf_cycle # None
    /\ scf_cycle[1].num_iterations >= 1
    /\ getitem(scf_cycle[1], "Etot(hartree)")[1]
         = float(stream[FirstHeaderAfter(start) + 1].toks[3])

\* ======================================================================
\* C9
\* ======================================================================
\* C9 as stated: while no section has been found, no line read so far holds
\* the marker anywhere (such a line would have been taken as the header).
C9Original ==
    (pc = "scan" /\ fields = None) =>
        \A i \in (start + 1)..pos : ~MarkerInside(stream[i])

\* C9 amended: the header is the first line that, stripped, starts with the
\* marker; a line holding the marker further on is not a header.  The tokens
\* of the header line become the column names.
C9Amended ==
    pc \in {"scan", "parsed"} =>
        /\ fields = None <=> \A i \in (start + 1)..pos : ~MarkerAtStart(stream[i])
        /\ fields # None =>
              /\ keys = stream[FirstHeaderAfter(start)].toks
              /\ DictKeys(fields[1]) = keys

C9Witness ==
    /\ pc = "scan"
    /\ pos = 2
    /\ start = 0
    /\ MarkerInside(stream[1]) /\ ~MarkerAtStart(stream[1])
    /\ stream[2].lead > 0 /\ MarkerAtStart(stream[2])
    /\ fields # None
    /\ keys = stream[2].toks

\* ======================================================================
\* C8
\* ======================================================================
\* every element is above its predecessor, or equal to it within tol
RisesWithin(vs, tol) ==
    \A i \in 1..(Len(vs) - 1) : vs[i + 1] > vs[i] \/ abs(vs[i + 1] - vs[i]) <= tol

\* every element is below its predecessor, or equal to it within tol
FallsWithin(vs, tol) ==
    \A i \in 1..(Len(vs) - 1) : vs[i + 1] < vs[i] \/ abs(vs[i + 1] - vs[i]) <= tol

C10Progress ==
    /\ pc \in {"scan", "parsed", "ret"} =>
          /\ Len(cycles) <= start
          /\ Len(cycles) + 1 <= Len(stream) + 1
    /\ (pc = "ret" /\ scf_cycle # None) => pos > start
    /\ (pc = "ret" /\ scf_cycle = None) => pos = Len(stream)

\* C10: Relaxation.from_stream terminates (it returns or raises) on every
\* stream, its loop running at most one time more than the stream has lines.
C10Terminates == []C10Progress /\ <>(pc \in {"done", "error"})

C10Witness ==
    /\ pc = "done"
    /\ Len(stream) = 3
    /\ Len(cycles) = 2
    /\ pos = Len(stream)

====
